---- MODULE Spec2Model ----
(***************************************************************************)
(* Model of templates/template.js: the async function main(), a straight   *)
(* line of awaited Google Wallet REST calls.                               *)
(*                                                                         *)
(* JavaScript strings are TLA+ strings, except the user id, which is kept  *)
(* as its sequence of characters so that the regular expression of line 54 *)
(* can act on it character by character; Join turns it back into a string. *)
(* JavaScript objects are records. One step of the model is the code that  *)
(* runs between two awaits (the code before the first await is cut at the  *)
(* section markers setup / auth / class).                                  *)
(*                                                                         *)
(* The placeholders $object_type, $class_payload, $object_payload and      *)
(* $object_id are filled in by a generator that is not part of the file:   *)
(* the first three are inputs of the model (the variable template).        *)
(***************************************************************************)
EXTENDS Naturals, Sequences, FiniteSets, TLC

VARIABLES
    env,                 \* process.env
    keyFile,             \* what require(keyFilePath) finds on disk
    template,            \* the generator's substitutions
    pc,                  \* position of main()
    keyFilePath, issuerId, classId, userId, objectId,
    credentials,
    classResponse, objectResponse, issuerResponse, permissionsResponse,
    claims, token, saveUrl,
    trace,               \* requests, settlements, signatures and console lines, in order
    rejection            \* the reason main()'s promise rejected with

vars == <<env, keyFile, template, pc, keyFilePath, issuerId, classId, userId,
          objectId, credentials, classResponse, objectResponse, issuerResponse,
          permissionsResponse, claims, token, saveUrl, trace, rejection>>

setupVars == <<keyFilePath, issuerId, classId, userId, objectId>>
responseVars == <<classResponse, objectResponse, issuerResponse, permissionsResponse>>
jwtVars == <<claims, token, saveUrl>>
inputVars == <<env, keyFile, template>>

-----------------------------------------------------------------------------
(* Bounds and input samples *)

MaxLen == 2

Alphabet == {"a", "Z", "7", "_", ".", "-", " ", "!"}

RECURSIVE StringsUpTo(_)
StringsUpTo(n) ==
    IF n = 0 THEN {<<>>}
    ELSE LET shorter == StringsUpTo(n - 1)
         IN  shorter \cup {Append(s, c) : s \in {t \in shorter : Len(t) = n - 1}, c \in Alphabet}

\* a binding that has not been initialised yet
undefined == [undefined |-> TRUE]
Uninit == "<uninitialized>"

-----------------------------------------------------------------------------
(* Strings *)

RECURSIVE Join(_)
Join(s) == IF s = <<>> THEN "" ELSE Head(s) \o Join(Tail(s))

\* a || b on strings: the empty string (and an unset variable) is falsy
OrDefault(value, default) == IF value = "" THEN default ELSE value
OrDefaultChars(value, default) == IF value = <<>> THEN default ELSE value

Letters ==
    {"a","b","c","d","e","f","g","h","i","j","k","l","m",
     "n","o","p","q","r","s","t","u","v","w","x","y","z",
     "A","B","C","D","E","F","G","H","I","J","K","L","M",
     "N","O","P","Q","R","S","T","U","V","W","X","Y","Z"}
Digits == {"0","1","2","3","4","5","6","7","8","9"}

\* \w
IsWordChar(c) == c \in Letters \cup Digits \cup {"_"}

\* [^\w.-]
MatchesPattern(c) == ~(IsWordChar(c) \/ c = "." \/ c = "-")

\* s.replace(/[^\w.-]/, '_') : without the g flag only the first match is replaced
RECURSIVE ReplaceFirst(_)
ReplaceFirst(s) ==
    IF s = <<>> THEN <<>>
    ELSE IF MatchesPattern(Head(s)) THEN <<"_">> \o Tail(s)
    ELSE <<Head(s)>> \o ReplaceFirst(Tail(s))

\* s.replace(/[^\w.-]/g, '_')
RECURSIVE Replace(_)
Replace(s) ==
    IF s = <<>> THEN <<>>
    ELSE (IF MatchesPattern(Head(s)) THEN <<"_">> ELSE <<Head(s)>>) \o Replace(Tail(s))

\* line 54: `${issuerId}.${userId.replace(...)}-${classId}`
ObjectId(issuer, user, class) == issuer \o "." \o Join(Replace(user)) \o "-" \o class

-----------------------------------------------------------------------------
(* Requests and what the server may answer *)

NotFound == 404
SuccessStatuses == {200}
ErrorStatuses == {NotFound, 409, 500}

classUrl == "https://walletobjects.googleapis.com/walletobjects/v1/" \o template.object_type \o "Class/"
classPayload == template.class_payload

objectUrl == "https://walletobjects.googleapis.com/walletobjects/v1/" \o template.object_type \o "Object/"
objectPayload == template.object_payload

issuerName == "name"
issuerEmail == "email-address"
issuerUrl == "https://walletobjects.googleapis.com/walletobjects/v1/issuer"
issuerPayload == [name |-> issuerName, contactInfo |-> [email |-> issuerEmail]]

permissionsUrl == "https://walletobjects.googleapis.com/walletobjects/v1/permissions/" \o issuerId
permissionsPayload ==
    [issuerId |-> issuerId,
     permissions |-> << [emailAddress |-> "email-address", role |-> "READER | WRITER | OWNER"] >>]

ClassPostConfig == [url |-> classUrl, method |-> "POST", data |-> classPayload]

\* the lookup addressed by the format the comment of line 51 gives, issuerId.userId
ObjectGetConfigRawUserId == [url |-> objectUrl \o issuerId \o "." \o Join(userId), method |-> "GET"]

ObjectGetConfig == [url |-> objectUrl \o objectId, method |-> "GET"]

ObjectPostConfigWrongPayload == [url |-> objectUrl, method |-> "POST", data |-> classPayload]

ObjectPostConfig == [url |-> objectUrl, method |-> "POST", data |-> objectPayload]

IssuerPostConfig == [url |-> issuerUrl, method |-> "POST", data |-> issuerPayload]

PermissionsPutConfig == [url |-> permissionsUrl, method |-> "PUT", data |-> permissionsPayload]

\* what an awaited httpClient.request(config) resolves with
Responses(config) == {[config |-> config, status |-> s] : s \in SuccessStatuses}

\* what it rejects with: an HTTP error carrying the response, or an error
\* (no connection, no access token) carrying none
Errors(config) ==
    {[config |-> config, response |-> [config |-> config, status |-> s]] : s \in ErrorStatuses}
    \cup {[config |-> config, response |-> undefined]}

RequestEvent(config) == [type |-> "request", config |-> config]
ResolveEvent(res) == [type |-> "resolve", config |-> res.config, value |-> res]
RejectEvent(err) == [type |-> "reject", config |-> err.config, value |-> err]
LogEvent(args) == [type |-> "log", args |-> args]
SignEvent(c, key) == [type |-> "sign", claims |-> c, key |-> key]

\* the request main() is suspended on
Pending == trace[Len(trace)].config

\* err.response && err.response.status === 404, with the status test dropped
IsHttpError(err) == err.response # undefined

\* err.response && err.response.status === 404
IsNotFound(err) == err.response # undefined /\ err.response.status = NotFound

-----------------------------------------------------------------------------
(* The save link *)

\* the generator's substitution for $object_id
object_id == objectId

Claims ==
    [iss |-> credentials.client_email,
     aud |-> "google",
     origins |-> <<"www.example.com">>,
     typ |-> "savetowallet",
     payload |-> ((template.object_type \o "Objects") :> << [id |-> object_id] >>)]

\* jwt.sign(payload, key, options): the payload is copied, iat is added, and
\* exp only when options.expiresIn is given
Sign(payload, key, options) ==
    [header |-> [alg |-> options.algorithm, typ |-> "JWT"],
     payload |-> IF "expiresIn" \in DOMAIN options
                 THEN payload @@ [iat |-> "now", exp |-> "now+" \o options.expiresIn]
                 ELSE payload @@ [iat |-> "now"],
     key |-> key]

SaveUrl(t) == [prefix |-> "https://pay.google.com/gp/v/save/", token |-> t]

-----------------------------------------------------------------------------
(* Inputs *)

Payloads == {[kind |-> "payloadA"], [kind |-> "payloadB"]}
ObjectTypes == {"loyalty", "generic"}
Templates == [object_type : ObjectTypes, class_payload : Payloads, object_payload : Payloads]

ServiceAccounts ==
    {[client_email |-> "a@project.iam.gserviceaccount.com", private_key |-> "key-a"],
     [client_email |-> "b@project.iam.gserviceaccount.com", private_key |-> "key-b"]}
KeyFiles ==
    {[status |-> "missing"], [status |-> "malformed"]}
    \cup {[status |-> "ok", json |-> sa] : sa \in ServiceAccounts}

Env(path, issuer, class, user) ==
    [GOOGLE_APPLICATION_CREDENTIALS |-> path, WALLET_ISSUER_ID |-> issuer,
     WALLET_CLASS_ID |-> class, WALLET_USER_ID |-> user]

\* the environments of the workflow runs
WorkflowEnvs ==
    {Env(path, issuer, class, user) :
        path \in {"", "/srv/key.json"},
        issuer \in {"", "3388000000022141777"},
        class \in {"", "test-loyalty-class-id"},
        user \in {<<>>, <<"u", " ", "n", "!">>}}

\* the environments the object id is derived from
ObjectIdEnvs ==
    {Env("", issuer, class, user) :
        issuer \in {"", "33", "i d"},
        class \in {"", "c-1", "c!"},
        user \in StringsUpTo(MaxLen)}

InitFrom(envs, keyFiles, templates) ==
    /\ env \in envs
    /\ keyFile \in keyFiles
    /\ template \in templates
    /\ pc = "setup"
    /\ keyFilePath = Uninit /\ issuerId = Uninit /\ classId = Uninit
    /\ userId = <<>> /\ objectId = Uninit
    /\ credentials = undefined
    /\ classResponse = undefined /\ objectResponse = undefined
    /\ issuerResponse = undefined /\ permissionsResponse = undefined
    /\ claims = undefined /\ token = undefined /\ saveUrl = undefined
    /\ trace = <<>>
    /\ rejection = undefined

Init == InitFrom(WorkflowEnvs, KeyFiles, Templates)

InitObjectId ==
    InitFrom(ObjectIdEnvs, {[status |-> "missing"]},
             {[object_type |-> t, class_payload |-> [kind |-> "payloadA"],
               object_payload |-> [kind |-> "payloadB"]] : t \in ObjectTypes})

-----------------------------------------------------------------------------
(* main() *)

\* an exception nothing catches: main()'s promise rejects and nothing more runs
Throw(err) ==
    /\ pc' = "rejected"
    /\ rejection' = err

\* lines 21-54
Setup ==
    /\ pc = "setup"
    /\ keyFilePath' = OrDefault(env.GOOGLE_APPLICATION_CREDENTIALS, "/path/to/key.json")
    /\ issuerId' = OrDefault(env.WALLET_ISSUER_ID, "issuer-id")
    /\ classId' = OrDefault(env.WALLET_CLASS_ID, "test-" \o template.object_type \o "-class-id")
    /\ userId' = OrDefaultChars(env.WALLET_USER_ID, <<"u", "s", "e", "r", "-", "i", "d">>)
    /\ objectId' = ObjectId(issuerId', userId', classId')
    /\ pc' = "auth"
    /\ UNCHANGED <<inputVars, credentials, responseVars, jwtVars, trace, rejection>>

\* lines 62-67 with the failure of require() ignored
AuthLenient ==
    /\ pc = "auth"
    /\ credentials' = IF keyFile.status = "ok" THEN keyFile.json
                      ELSE [client_email |-> "", private_key |-> ""]
    /\ pc' = "class"
    /\ UNCHANGED <<inputVars, setupVars, responseVars, jwtVars, trace, rejection>>

\* lines 62-67: require(keyFilePath) throws when the file is missing or does not parse
Auth ==
    /\ pc = "auth"
    /\ IF keyFile.status = "ok"
       THEN /\ credentials' = keyFile.json
            /\ pc' = "class"
            /\ UNCHANGED rejection
       ELSE /\ Throw([code |-> IF keyFile.status = "missing" THEN "MODULE_NOT_FOUND"
                               ELSE "SyntaxError",
                      path |-> keyFilePath])
            /\ UNCHANGED credentials
    /\ UNCHANGED <<inputVars, setupVars, responseVars, jwtVars, trace>>

\* lines 115-167: log the object response, sign and print the save link, and
\* send the issuer request
AfterObject(response, tr) ==
    /\ objectResponse' = response
    /\ claims' = Claims
    /\ token' = Sign(claims', credentials.private_key, [algorithm |-> "RS256"])
    /\ saveUrl' = SaveUrl(token')
    /\ trace' = tr \o << LogEvent(<<"object GET or POST response:", response>>),
                        SignEvent(claims', credentials.private_key),
                        LogEvent(<<saveUrl'>>),
                        RequestEvent(IssuerPostConfig) >>
    /\ pc' = "awaitIssuer"
    /\ UNCHANGED <<inputVars, setupVars, credentials, classResponse, issuerResponse,
                   permissionsResponse, rejection>>

keep(others) == UNCHANGED <<inputVars, setupVars, credentials, others>>

\* lines 75-82 and, with the await of line 78 missing, lines 92-100 at once
ClassRequestNoAwait ==
    /\ pc = "class"
    /\ trace' = trace \o << RequestEvent(ClassPostConfig), RequestEvent(ObjectGetConfig) >>
    /\ pc' = "awaitObjectGet"
    /\ keep(<<responseVars, jwtVars, rejection>>)

\* lines 75-82: send the class request and wait
ClassRequest ==
    /\ pc = "class"
    /\ trace' = Append(trace, RequestEvent(ClassPostConfig))
    /\ pc' = "awaitClass"
    /\ keep(<<responseVars, jwtVars, rejection>>)

\* lines 78-100: the class request resolves; log it, send the object lookup and wait
ClassResolves ==
    /\ pc = "awaitClass"
    /\ \E res \in Responses(Pending) :
        /\ classResponse' = res
        /\ trace' = trace \o << ResolveEvent(res),
                               LogEvent(<<"class POST response: ", res>>),
                               RequestEvent(ObjectGetConfig) >>
    /\ pc' = "awaitObjectGet"
    /\ keep(<<objectResponse, issuerResponse, permissionsResponse, jwtVars, rejection>>)

\* line 78 in a retry loop: a rejected class request is sent again
ClassRejectsRetried ==
    /\ pc = "awaitClass"
    /\ \E err \in Errors(Pending) :
        trace' = trace \o << RejectEvent(err), RequestEvent(ClassPostConfig) >>
    /\ keep(<<pc, responseVars, jwtVars, rejection>>)

\* line 78 in a try/catch like that of the object lookup: the error is kept
\* as the response and the run goes on
ClassRejectsSwallowed ==
    /\ pc = "awaitClass"
    /\ \E err \in Errors(Pending) :
        /\ classResponse' = err
        /\ trace' = trace \o << RejectEvent(err),
                               LogEvent(<<"class POST response: ", err>>),
                               RequestEvent(ObjectGetConfig) >>
    /\ pc' = "awaitObjectGet"
    /\ keep(<<objectResponse, issuerResponse, permissionsResponse, jwtVars, rejection>>)

\* line 78: the class request rejects; nothing catches it
ClassRejects ==
    /\ pc = "awaitClass"
    /\ \E err \in Errors(Pending) :
        /\ trace' = Append(trace, RejectEvent(err))
        /\ Throw(err)
    /\ keep(<<responseVars, jwtVars>>)

\* lines 97-100 with the assignment lost: the fetched response is dropped
ObjectGetResolvesDropped ==
    /\ pc = "awaitObjectGet"
    /\ \E res \in Responses(Pending) :
        AfterObject(undefined, Append(trace, ResolveEvent(res)))

\* lines 97-100, 115-167: the lookup resolves; its response is the object response
ObjectGetResolves ==
    /\ pc = "awaitObjectGet"
    /\ \E res \in Responses(Pending) :
        AfterObject(res, Append(trace, ResolveEvent(res)))

\* lines 101-113, 115-167: the lookup rejects. A 404 sends the creation request
\* and waits; any other error becomes the object response
ObjectGetRejects ==
    /\ pc = "awaitObjectGet"
    /\ \E err \in Errors(Pending) :
        IF IsNotFound(err)
        THEN /\ trace' = trace \o << RejectEvent(err), RequestEvent(ObjectPostConfig) >>
             /\ pc' = "awaitObjectPost"
             /\ keep(<<responseVars, jwtVars, rejection>>)
        ELSE AfterObject(err, Append(trace, RejectEvent(err)))

\* lines 105-109, 115-167: the creation request resolves
ObjectPostResolves ==
    /\ pc = "awaitObjectPost"
    /\ \E res \in Responses(Pending) :
        AfterObject(res, Append(trace, ResolveEvent(res)))

\* line 105 with a catch of its own that keeps the error as the response
ObjectPostRejectsSwallowed ==
    /\ pc = "awaitObjectPost"
    /\ \E err \in Errors(Pending) :
        AfterObject(err, Append(trace, RejectEvent(err)))

\* line 105: the creation request rejects inside the catch block; nothing catches it
ObjectPostRejects ==
    /\ pc = "awaitObjectPost"
    /\ \E err \in Errors(Pending) :
        /\ trace' = Append(trace, RejectEvent(err))
        /\ Throw(err)
    /\ keep(<<responseVars, jwtVars>>)

\* lines 163-196: the issuer request resolves; log it, send the permissions update
IssuerResolves ==
    /\ pc = "awaitIssuer"
    /\ \E res \in Responses(Pending) :
        /\ issuerResponse' = res
        /\ trace' = trace \o << ResolveEvent(res),
                               LogEvent(<<"issuer POST response:", res>>),
                               RequestEvent(PermissionsPutConfig) >>
    /\ pc' = "awaitPermissions"
    /\ keep(<<classResponse, objectResponse, permissionsResponse, jwtVars, rejection>>)

\* line 163: the issuer request rejects
IssuerRejects ==
    /\ pc = "awaitIssuer"
    /\ \E err \in Errors(Pending) :
        /\ trace' = Append(trace, RejectEvent(err))
        /\ Throw(err)
    /\ keep(<<responseVars, jwtVars>>)

\* lines 192-200: the permissions update resolves; log it and return
PermissionsResolves ==
    /\ pc = "awaitPermissions"
    /\ \E res \in Responses(Pending) :
        /\ permissionsResponse' = res
        /\ trace' = trace \o << ResolveEvent(res),
                               LogEvent(<<"permissions PUT response:", res>>) >>
    /\ pc' = "done"
    /\ keep(<<classResponse, objectResponse, issuerResponse, jwtVars, rejection>>)

\* line 192: the permissions update rejects
PermissionsRejects ==
    /\ pc = "awaitPermissions"
    /\ \E err \in Errors(Pending) :
        /\ trace' = Append(trace, RejectEvent(err))
        /\ Throw(err)
    /\ keep(<<responseVars, jwtVars>>)

Next ==
    \/ Setup
    \/ Auth
    \/ ClassRequest
    \/ ClassResolves
    \/ ClassRejects
    \/ ObjectGetResolves
    \/ ObjectGetRejects
    \/ ObjectPostResolves
    \/ ObjectPostRejects
    \/ IssuerResolves
    \/ IssuerRejects
    \/ PermissionsResolves
    \/ PermissionsRejects

Spec == Init /\ [][Next]_vars

\* the derivation of the object id alone, over every short user id
SpecObjectId == InitObjectId /\ [][Setup]_vars

-----------------------------------------------------------------------------
(* Reading the trace *)

IsRequest(i) == trace[i].type = "request"
IsSettled(i) == trace[i].type \in {"resolve", "reject"}

IsClassPost(c) == c.method = "POST" /\ c.url = classUrl
IsObjectGet(c) == c.method = "GET"
IsObjectPost(c) == c.method = "POST" /\ c.url = objectUrl
IsIssuerPost(c) == c.method = "POST" /\ c.url = issuerUrl
IsPermissionsPut(c) == c.method = "PUT"

ClassPosts == {i \in DOMAIN trace : IsRequest(i) /\ IsClassPost(trace[i].config)}
ObjectGets == {i \in DOMAIN trace : IsRequest(i) /\ IsObjectGet(trace[i].config)}
ObjectPosts == {i \in DOMAIN trace : IsRequest(i) /\ IsObjectPost(trace[i].config)}
IssuerPosts == {i \in DOMAIN trace : IsRequest(i) /\ IsIssuerPost(trace[i].config)}
PermissionsPuts == {i \in DOMAIN trace : IsRequest(i) /\ IsPermissionsPut(trace[i].config)}
AllRequests == {i \in DOMAIN trace : IsRequest(i)}

\* the lookup ended at place i of the trace: found, not found, or failed otherwise
GetFound(i) == trace[i].type = "resolve" /\ IsObjectGet(trace[i].config)
GetFailed(i) == trace[i].type = "reject" /\ IsObjectGet(trace[i].config)
Has404(err) == IF err.response = undefined THEN FALSE ELSE err.response.status = 404
GetNotFound(i) == GetFailed(i) /\ Has404(trace[i].value)
GetOtherError(i) == GetFailed(i) /\ ~Has404(trace[i].value)

\* the console line of line 115 and that of line 138
IsObjectLog(i) == trace[i].type = "log" /\ Len(trace[i].args) = 2
                  /\ trace[i].args[1] = "object GET or POST response:"
IsSaveUrlLog(i) == trace[i].type = "log" /\ Len(trace[i].args) = 1
SaveUrlPrinted == \E i \in DOMAIN trace : IsSaveUrlLog(i) /\ trace[i].args[1] = saveUrl
Signed == \E i \in DOMAIN trace : trace[i].type = "sign"

-----------------------------------------------------------------------------
(* Claims *)

\* C1: whenever the lookup of the object fails with status 404, exactly one
\* creation request is in the run, sent right then as a POST to the object
\* collection URL with the caller's object payload unchanged; and where the
\* object step has finished, its object response is the response that POST
\* resolved with.
C1_NotFoundCreatesOnce ==
    \A i \in DOMAIN trace : GetNotFound(i) =>
        /\ Cardinality(ObjectPosts) = 1
        /\ ObjectPosts = {i + 1}
        /\ trace[i + 1].config =
              [url |-> "https://walletobjects.googleapis.com/walletobjects/v1/"
                         \o template.object_type \o "Object/",
               method |-> "POST", data |-> template.object_payload]
        /\ \A k \in DOMAIN trace :
              (trace[k].type = "resolve" /\ IsObjectPost(trace[k].config))
                  => objectResponse = trace[k].value
        /\ \A j \in DOMAIN trace : IsObjectLog(j) =>
              /\ trace[j].args[2] = objectResponse
              /\ \E k \in (i + 2)..(j - 1) :
                    /\ trace[k].type = "resolve"
                    /\ trace[k].config = trace[i + 1].config
                    /\ trace[k].value = objectResponse

C1_Witness ==
    /\ pc = "done"
    /\ template.object_payload # template.class_payload
    /\ \E i \in DOMAIN trace : GetNotFound(i)
    /\ objectResponse.config.method = "POST"

\* C2: whenever the lookup of the object succeeds, no creation request is in
\* the run, then or later, and the object response is the fetched response.
C2_FoundCreatesNothing ==
    \A i \in DOMAIN trace : GetFound(i) =>
        /\ ObjectPosts = {}
        /\ objectResponse = trace[i].value
        /\ objectResponse.config.method = "GET"
        /\ \A j \in DOMAIN trace : IsObjectLog(j) => trace[j].args[2] = trace[i].value

C2_Witness ==
    /\ pc = "done"
    /\ \E i \in DOMAIN trace : GetFound(i) /\ trace[i].value.status = 200

\* C3: whenever the lookup fails with an error other than a 404 (another
\* status, or no response at all), no creation request is in the run, the
\* error itself is the object response, the run does not reject with it, and
\* the save link is signed and printed.
C3_OtherErrorIsKept ==
    \A i \in DOMAIN trace : GetOtherError(i) =>
        /\ ObjectPosts = {}
        /\ objectResponse = trace[i].value
        /\ rejection # trace[i].value
        /\ \E s \in (i + 1)..Len(trace) : trace[s].type = "sign"
        /\ SaveUrlPrinted
        /\ saveUrl # undefined

C3_Witness ==
    /\ pc = "done"
    /\ \E i \in DOMAIN trace : GetOtherError(i) /\ trace[i].value.response = undefined

C3_WitnessStatus ==
    /\ pc = "done"
    /\ \E i \in DOMAIN trace :
          /\ GetOtherError(i)
          /\ trace[i].value.response # undefined
          /\ trace[i].value.response.status = 500

\* every request before place j of the trace was settled before j
AllSettledBefore(j) ==
    \A i \in 1..(j - 1) : IsRequest(i) =>
        \E k \in (i + 1)..(j - 1) : IsSettled(k) /\ trace[k].config = trace[i].config

\* C4: the steps are strictly sequential: no request is sent, and no token
\* signed, while an earlier request is outstanding; the class request is
\* sent and settled before the lookup is sent; the lookup, and the creation
\* request it may trigger, are sent and settled before the token is signed.
C4_Sequential ==
    /\ \A j \in DOMAIN trace :
          (IsRequest(j) \/ trace[j].type = "sign") => AllSettledBefore(j)
    /\ \A j \in ObjectGets :
          \E i \in ClassPosts : \E k \in (i + 1)..(j - 1) :
              IsSettled(k) /\ IsClassPost(trace[k].config)
    /\ \A s \in DOMAIN trace : trace[s].type = "sign" =>
          /\ \E i \in ObjectGets : \E k \in (i + 1)..(s - 1) :
                IsSettled(k) /\ IsObjectGet(trace[k].config)
          /\ \A i \in ObjectPosts : i < s
          /\ \A i \in ClassPosts \cup ObjectGets : i < s
          /\ \A i \in IssuerPosts \cup PermissionsPuts : s < i

C4_Witness ==
    /\ pc = "done"
    /\ ObjectPosts # {}
    /\ Signed

\* C5: nothing is retried: each of the five requests is in the request
\* history at most once whatever the calls answered, the history holds no
\* other request, and a run that returns has sent the class request, the
\* lookup, the issuer request and the permissions update exactly once each.
C5_NoRetry ==
    /\ Cardinality(ClassPosts) <= 1
    /\ Cardinality(ObjectGets) <= 1
    /\ Cardinality(ObjectPosts) <= 1
    /\ Cardinality(IssuerPosts) <= 1
    /\ Cardinality(PermissionsPuts) <= 1
    /\ AllRequests = ClassPosts \cup ObjectGets \cup ObjectPosts
                        \cup IssuerPosts \cup PermissionsPuts
    /\ \A i, j \in AllRequests : trace[i].config = trace[j].config => i = j
    /\ pc = "done" =>
          /\ Cardinality(ClassPosts) = 1
          /\ Cardinality(ObjectGets) = 1
          /\ Cardinality(IssuerPosts) = 1
          /\ Cardinality(PermissionsPuts) = 1

C5_Witness ==
    /\ pc = "rejected"
    /\ Cardinality(AllRequests) = 5
    /\ trace[Len(trace)].type = "reject"
    /\ IsPermissionsPut(trace[Len(trace)].config)

\* C6: an error of the class, issuer or permissions request is caught by
\* nothing: the run rejects with it and it stays the last event of the
\* trace, so no request follows it; after a failed class request there is
\* no lookup, no save URL, no issuer request and no permissions request.
C6_ErrorsTerminate ==
    \A i \in DOMAIN trace :
        (/\ trace[i].type = "reject"
         /\ \/ IsClassPost(trace[i].config)
            \/ IsIssuerPost(trace[i].config)
            \/ IsPermissionsPut(trace[i].config)) =>
            /\ i = Len(trace)
            /\ pc = "rejected"
            /\ rejection = trace[i].value
            /\ IsClassPost(trace[i].config) =>
                  /\ ObjectGets = {} /\ ObjectPosts = {}
                  /\ IssuerPosts = {} /\ PermissionsPuts = {}
                  /\ saveUrl = undefined /\ ~Signed
                  /\ \A j \in DOMAIN trace : ~IsSaveUrlLog(j)

C6_Witness ==
    /\ pc = "rejected"
    /\ trace # <<>>
    /\ trace[Len(trace)].type = "reject"
    /\ IsClassPost(trace[Len(trace)].config)
    /\ trace[Len(trace)].value.response # undefined

C6_WitnessIssuer ==
    /\ pc = "rejected"
    /\ trace # <<>>
    /\ trace[Len(trace)].type = "reject"
    /\ IsIssuerPost(trace[Len(trace)].config)

\* C7: when the credential file is missing or malformed the run rejects at
\* once: once past the auth section it has rejected, with no request sent,
\* nothing printed, and no token signed.
C7_CredentialFailureIsFatal ==
    (keyFile.status # "ok" /\ pc \notin {"setup", "auth"}) =>
        /\ pc = "rejected"
        /\ rejection # undefined
        /\ trace = <<>>
        /\ credentials = undefined
        /\ claims = undefined /\ token = undefined /\ saveUrl = undefined

C7_Witness ==
    /\ pc = "rejected"
    /\ keyFile.status = "malformed"
    /\ trace = <<>>

\* the characters [A-Za-z0-9._-], written out
SafeChars ==
    {"A","B","C","D","E","F","G","H","I","J","K","L","M","N","O","P","Q","R","S",
     "T","U","V","W","X","Y","Z","a","b","c","d","e","f","g","h","i","j","k","l",
     "m","n","o","p","q","r","s","t","u","v","w","x","y","z","0","1","2","3","4",
     "5","6","7","8","9",".","_","-"}

\* user with every character outside SafeChars replaced by "_", place by place
Sanitized(user) == [i \in 1..Len(user) |-> IF user[i] \in SafeChars THEN user[i] ELSE "_"]

C8_WitnessKept ==
    /\ pc = "auth"
    /\ userId = <<"Z", ".">>
    /\ objectId = "33.Z.-c-1"

ObjectStepEnded ==
    \E i \in DOMAIN trace :
        \/ GetFound(i)
        \/ GetOtherError(i)
        \/ /\ GetNotFound(i)
           /\ \E k \in DOMAIN trace :
                 k > i /\ trace[k].type = "resolve" /\ IsObjectPost(trace[k].config)

\* C10: a save URL has been signed and printed exactly when the credential
\* was loaded, the class request resolved, and the object step ended well.
\* When the creation request sent after a 404 rejects, nothing catches the
\* error: the run rejects with it, prints no save URL and sends neither the
\* issuer request nor the permissions update.
C10_SaveUrlIff ==
    /\ (saveUrl # undefined /\ SaveUrlPrinted) <=>
          /\ keyFile.status = "ok" /\ credentials # undefined
          /\ \E i \in DOMAIN trace : trace[i].type = "resolve" /\ IsClassPost(trace[i].config)
          /\ ObjectStepEnded
    /\ (saveUrl # undefined) <=> SaveUrlPrinted
    /\ (\E j \in DOMAIN trace : IsSaveUrlLog(j)) <=> SaveUrlPrinted
    /\ \A i \in DOMAIN trace :
          (trace[i].type = "reject" /\ IsObjectPost(trace[i].config)) =>
              /\ i = Len(trace)
              /\ pc = "rejected"
              /\ rejection = trace[i].value
              /\ objectResponse = undefined
              /\ ~SaveUrlPrinted /\ ~Signed
              /\ IssuerPosts = {} /\ PermissionsPuts = {}

C10_Witness ==
    /\ pc = "rejected"
    /\ trace # <<>>
    /\ trace[Len(trace)].type = "reject"
    /\ IsObjectPost(trace[Len(trace)].config)
    /\ saveUrl = undefined

C10_WitnessPrinted ==
    /\ pc = "rejected"
    /\ SaveUrlPrinted
    /\ \E i \in DOMAIN trace : GetOtherError(i)

====
